---- MODULE Spec2Model ----
(***************************************************************************)
(* Marble Bag: sampling without replacement over NumMarbles slots.         *)
(*                                                                         *)
(* Two classes of the repository are modelled:                             *)
(*   crux::MarbleBag  bitset storage, public bAutoReset flag               *)
(*   dark::MarbleBag  storage packed in unsigned words, SetUsageData and   *)
(*                    GetUsageData, no auto reset                          *)
(* The variable cls says which class the bag of a behaviour is an          *)
(* instance of, and NumMarbles is its template argument.                   *)
(*                                                                         *)
(* The storage word of dark::MarbleBag is std::uint64_t. Every expression  *)
(* of the class is written in terms of NUM_BITS (the all-ones mask         *)
(* included: it is the word with NUM_BITS bits set), so the model keeps    *)
(* the arithmetic and takes the word width from WordBits, which makes bags *)
(* of several words, and bags whose last word is partly used, small enough *)
(* to enumerate.                                                           *)
(***************************************************************************)
EXTENDS Integers, Sequences, FiniteSets, TLC

\* ---- bounds -------------------------------------------------------------
\* width of a storage word in bits (64 in the source)
WordBits == 2
\* largest template argument NumMarbles that is instantiated
MaxMarbles == 3
\* GetNext is not called once m_numRemoved has reached this value
MaxRemoved == 6
\* tracked GetNext calls per behaviour of SpecCycle, in multiples of NumMarbles
MaxCycles == 2

\* ---- dark::MarbleBag, compile-time values ---------------------------------
NUM_BITS == WordBits

\* Ceil< double, int >( num / den ) for num >= 0, den > 0
Ceil(num, den) ==
  IF (num \div den) * den = num THEN num \div den ELSE (num \div den) + 1

DoubleCeilToInt(num, den) == Ceil(num, den)

\* size of the std::array m_removedMarbles
arraySize(N) == DoubleCeilToInt(N, NUM_BITS)

\* constexpr int bitRange
bitRange(N) == IF N < NUM_BITS THEN N ELSE NUM_BITS

\* constexpr std::uint64_t mask: the word with every bit set
mask == 2^NUM_BITS - 1

Words == 0..mask

\* ( indexer & currVal ) != 0, with indexer = 1LL << b
TestBit(w, b) == ((w \div (2^b)) % 2) = 1

\* w |= indexer, with indexer = 1LL << b
OrBit(w, b) == IF TestBit(w, b) THEN w ELSE w + 2^b

\* ---- storage --------------------------------------------------------------
Classes == {"crux", "dark"}

\* value-initialised m_removedMarbles
EmptyStorage(c, N) ==
  IF c = "crux" THEN [i \in 0..(N - 1) |-> FALSE]
  ELSE [j \in 0..(arraySize(N) - 1) |-> 0]

\* number of bit positions the storage holds
StorageBits(c, N) == IF c = "crux" THEN N ELSE arraySize(N) * NUM_BITS

\* is bit i of the storage set
IsRemoved(c, bits, i) ==
  IF c = "crux" THEN bits[i]
  ELSE TestBit(bits[i \div NUM_BITS], i % NUM_BITS)

\* the set of positions whose bit is set
RemovedSet(c, N, bits) ==
  {i \in 0..(StorageBits(c, N) - 1) : IsRemoved(c, bits, i)}

PopCount(c, N, bits) == Cardinality(RemovedSet(c, N, bits))

\* ---- queries --------------------------------------------------------------
GetRemainingCount(N, num) == N - num

HasMarbles(N, num) == GetRemainingCount(N, num) > 0

\* ---- Reset ----------------------------------------------------------------
\* Reset without "m_numRemoved = 0"
Reset_keepsCount(c, N, b) == [b EXCEPT !.bits = EmptyStorage(c, N)]

\* the bag as a record [bits, num, auto]
ResetOp(c, N, b) == [b EXCEPT !.bits = EmptyStorage(c, N), !.num = 0]

\* ---- crux::MarbleBag::GetNext ---------------------------------------------
\* the while loop: result walks forward, wrapping at N, until numToVisit
\* clear bits have been passed. steps counts the positions advanced. The
\* loop does not end when no bit is clear and numToVisit is not reached.
RECURSIVE crux_Walk(_, _, _, _, _, _)
crux_Walk(N, bits, result, numEmptyIndexesVisited, numToVisit, steps) ==
  IF ~(numEmptyIndexesVisited < numToVisit)
  THEN [hung |-> FALSE, result |-> result, steps |-> steps]
  ELSE IF \A i \in 0..(N - 1) : bits[i]
  THEN [hung |-> TRUE, result |-> result, steps |-> steps]
  ELSE LET next == IF result + 1 >= N THEN 0 ELSE result + 1
       IN crux_Walk(N, bits, next,
                    IF ~bits[next] THEN numEmptyIndexesVisited + 1
                    ELSE numEmptyIndexesVisited,
                    numToVisit, steps + 1)

\* from the first m_roll() on; roll2 is consumed only when the slot of roll1
\* is already removed
crux_Draw(N, b, roll1, roll2) ==
  IF b.bits[roll1]
  THEN LET w == crux_Walk(N, b.bits, roll1, 0, roll2, 0)
       IN IF w.hung
          THEN [ret |-> -1, hung |-> TRUE, bag |-> b, steps |-> w.steps, rolls |-> 2]
          ELSE [ret |-> w.result, hung |-> FALSE,
                bag |-> [b EXCEPT !.num = @ + 1, !.bits[w.result] = TRUE],
                steps |-> w.steps, rolls |-> 2]
  ELSE [ret |-> roll1, hung |-> FALSE,
        bag |-> [b EXCEPT !.num = @ + 1, !.bits[roll1] = TRUE],
        steps |-> 0, rolls |-> 1]

\* GetNext calling Reset() on an empty bag before it looks at bAutoReset
crux_GetNext_resetsFirst(N, b, roll1, roll2) ==
  IF ~HasMarbles(N, b.num)
  THEN IF b.auto
       THEN crux_Draw(N, ResetOp("crux", N, b), roll1, roll2)
       ELSE [ret |-> -1, hung |-> FALSE, bag |-> ResetOp("crux", N, b),
             steps |-> 0, rolls |-> 0]
  ELSE crux_Draw(N, b, roll1, roll2)

\* GetNext refilling with m_removedMarbles.reset() alone, not Reset()
crux_GetNext_refillKeepsCount(N, b, roll1, roll2) ==
  IF ~HasMarbles(N, b.num)
  THEN IF b.auto
       THEN crux_Draw(N, [b EXCEPT !.bits = EmptyStorage("crux", N)], roll1, roll2)
       ELSE [ret |-> -1, hung |-> FALSE, bag |-> b, steps |-> 0, rolls |-> 0]
  ELSE crux_Draw(N, b, roll1, roll2)

crux_GetNext(N, b, roll1, roll2) ==
  IF ~HasMarbles(N, b.num)
  THEN IF b.auto
       THEN crux_Draw(N, ResetOp("crux", N, b), roll1, roll2)
       ELSE [ret |-> -1, hung |-> FALSE, bag |-> b, steps |-> 0, rolls |-> 0]
  ELSE crux_Draw(N, b, roll1, roll2)

\* ---- dark::MarbleBag::GetNext ---------------------------------------------
\* the inner for loop over i: looks for a clear bit of word idx from
\* remainder on, wrapping at bitRange
RECURSIVE dark_Scan(_, _, _, _, _)
dark_Scan(N, currVal, remainder, i, steps) ==
  IF ~(i < bitRange(N))
  THEN [found |-> FALSE, remainder |-> remainder, steps |-> steps]
  ELSE IF ~TestBit(currVal, remainder)
  THEN [found |-> TRUE, remainder |-> remainder, steps |-> steps]
  ELSE dark_Scan(N, currVal,
                 IF remainder + 1 >= bitRange(N) THEN 0 ELSE remainder + 1,
                 i + 1, steps + 1)

\* the outer for loop over arrayIdx
RECURSIVE dark_Loop(_, _, _, _, _, _)
dark_Loop(N, b, arrayIdx, idx, remainder, steps) ==
  IF ~(arrayIdx < arraySize(N))
  THEN [ret |-> -1, hung |-> FALSE, bag |-> b, steps |-> steps, rolls |-> 1]
  ELSE IF b.bits[idx] # mask
  THEN LET s == dark_Scan(N, b.bits[idx], remainder, 0, steps)
       IN IF s.found
          THEN [ret |-> idx * NUM_BITS + s.remainder, hung |-> FALSE,
                bag |-> [b EXCEPT !.bits[idx] = OrBit(@, s.remainder),
                                  !.num = @ + 1],
                steps |-> s.steps, rolls |-> 1]
          ELSE dark_Loop(N, b, arrayIdx + 1, idx, s.remainder, s.steps)
  ELSE dark_Loop(N, b, arrayIdx + 1,
                 IF idx + 1 >= arraySize(N) THEN 0 ELSE idx + 1, 0,
                 steps + NUM_BITS)

dark_GetNext(N, b, roll1) ==
  LET result == roll1
      idx == result \div NUM_BITS
      remainder == result - (NUM_BITS * idx)
  IN dark_Loop(N, b, 0, idx, remainder, 0)

GetNextOp(c, N, b, roll1, roll2) ==
  IF c = "crux" THEN crux_GetNext(N, b, roll1, roll2)
  ELSE dark_GetNext(N, b, roll1)

\* ---- dark::MarbleBag::SetUsageData ----------------------------------------
\* _inData is a sequence of words (1-based), _inNumElements the count given
\* SetUsageData without m_removedMarbles.fill( 0 ): the words the caller did
\* not supply keep what they held
SetUsageData_noFill(N, b, inData, inNumElements) ==
  LET smallerSize == IF arraySize(N) > inNumElements THEN inNumElements
                     ELSE arraySize(N)
  IN [b EXCEPT !.bits = [j \in 0..(arraySize(N) - 1) |->
                           IF j < smallerSize THEN inData[j + 1] ELSE b.bits[j]]]

SetUsageDataOp(N, b, inData, inNumElements) ==
  LET smallerSize == IF arraySize(N) > inNumElements THEN inNumElements
                     ELSE arraySize(N)
  IN [b EXCEPT !.bits = [j \in 0..(arraySize(N) - 1) |->
                           IF j < smallerSize THEN inData[j + 1] ELSE 0]]

\* ---- move assignment / move construction ----------------------------------
\* operator=( MarbleBag&& ): the storage and m_roll are taken from other
MoveAssignOp(b, o) == [b EXCEPT !.bits = o.bits]

\* MarbleBag( MarbleBag&& ): default member initialisers, then operator=
MoveConstructOp(c, N, o) ==
  MoveAssignOp([bits |-> EmptyStorage(c, N), num |-> 0, auto |-> (c = "crux")], o)

\* ---- state ----------------------------------------------------------------
VARIABLES
  cls,               \* the class the bag is an instance of
  NumMarbles,        \* its template argument
  m_removedMarbles,  \* crux: std::bitset< NumMarbles >, dark: std::array of words
  m_numRemoved,      \* int m_numRemoved
  bAutoReset,        \* crux: public bool bAutoReset (FALSE in dark: no such member)
  m_roll,            \* which random engine m_roll is bound to
  other,             \* a second bag of the same type, the operand of the moves
  buf,               \* the caller's buffer handed to GetUsageData / SetUsageData
  outNum,            \* the caller's variable bound to _outNumElements
  hung,              \* a GetNext call is in a loop that never ends
  lastOp,            \* the operation of the last step
  lastRet,           \* what it returned (GetNext), 0 otherwise
  lastIn,            \* its inputs: the m_roll() results consumed, the words imported
  preNum,            \* m_numRemoved before the last step
  timesReturned,     \* SpecCycle: how often GetNext returned each value since
                     \* construction or the last Reset
  numCalls           \* SpecCycle: number of those GetNext calls

bagVars == <<m_removedMarbles, m_numRemoved, bAutoReset>>
obsVars == <<lastOp, lastRet, lastIn, preNum>>
cycleVars == <<timesReturned, numCalls>>
vars == <<cls, NumMarbles, m_removedMarbles, m_numRemoved, bAutoReset, m_roll,
          other, buf, outNum, hung, lastOp, lastRet, lastIn, preNum,
          timesReturned, numCalls>>

Engines == {"e1", "e2"}

\* the bag as a record
Self == [bits |-> m_removedMarbles, num |-> m_numRemoved, auto |-> bAutoReset]

\* a newly constructed bag: MarbleBag( RandomEngineType&& )
Constructed(c, N) ==
  [bits |-> EmptyStorage(c, N), num |-> 0, auto |-> (c = "crux")]

Rolls == 0..(NumMarbles - 1)

\* values GetNext can return
RetValues(c, N) == (-1)..(StorageBits(c, N) - 1)

\* what the caller's buffer holds before the bag is asked to fill it
BufInit(c, N) ==
  IF c = "crux" THEN {<<>>}
  ELSE {[j \in 1..arraySize(N) |-> 0], [j \in 1..arraySize(N) |-> mask]}

Init ==
  /\ cls \in Classes
  /\ NumMarbles \in 1..MaxMarbles
  /\ m_removedMarbles = EmptyStorage(cls, NumMarbles)
  /\ m_numRemoved = 0
  /\ bAutoReset = (cls = "crux")
  /\ m_roll = "e1"
  /\ other = [bag |-> Constructed(cls, NumMarbles), valid |-> TRUE]
  /\ buf \in BufInit(cls, NumMarbles)
  /\ outNum = 0
  /\ hung = FALSE
  /\ lastOp = "MarbleBag"
  /\ lastRet = 0
  /\ lastIn = <<>>
  /\ preNum = 0
  /\ timesReturned = [v \in RetValues(cls, NumMarbles) |-> 0]
  /\ numCalls = 0

\* the step of an operation that leaves the bag as b
Step(op, ret, in, b) ==
  /\ m_removedMarbles' = b.bits
  /\ m_numRemoved' = b.num
  /\ bAutoReset' = b.auto
  /\ lastOp' = op
  /\ lastRet' = ret
  /\ lastIn' = in
  /\ preNum' = m_numRemoved
  /\ UNCHANGED <<cls, NumMarbles>>

\* the m_roll() results a call consumed
Consumed(g, roll1, roll2) ==
  IF g.rolls = 0 THEN <<>>
  ELSE IF g.rolls = 1 THEN <<roll1>> ELSE <<roll1, roll2>>

\* GetNext, without the bookkeeping of SpecCycle
GetNextCore(roll1, roll2) ==
  /\ ~hung
  /\ m_numRemoved < MaxRemoved
  /\ LET g == GetNextOp(cls, NumMarbles, Self, roll1, roll2)
     IN /\ Step("GetNext", g.ret, Consumed(g, roll1, roll2), g.bag)
        /\ hung' = g.hung
  /\ UNCHANGED <<m_roll, other, buf, outNum>>

GetNext ==
  \E roll1 \in Rolls, roll2 \in Rolls :
    /\ GetNextCore(roll1, roll2)
    /\ UNCHANGED cycleVars

\* Reset, without the bookkeeping of SpecCycle
ResetCore ==
  /\ ~hung
  /\ Step("Reset", 0, <<>>, ResetOp(cls, NumMarbles, Self))
  /\ UNCHANGED <<m_roll, other, buf, outNum, hung>>

Reset ==
  /\ ResetCore
  /\ UNCHANGED cycleVars

\* SetRandomEngine that also returns the marbles to the bag
SetRandomEngine_resets ==
  /\ ~hung
  /\ \E e \in Engines : m_roll' = e
  /\ Step("SetRandomEngine", 0, <<>>, ResetOp(cls, NumMarbles, Self))
  /\ UNCHANGED <<other, buf, outNum, hung, cycleVars>>

SetRandomEngine ==
  /\ ~hung
  /\ \E e \in Engines : m_roll' = e
  /\ Step("SetRandomEngine", 0, <<>>, Self)
  /\ UNCHANGED <<other, buf, outNum, hung, cycleVars>>

\* the caller assigns the public member bAutoReset
SetAutoReset ==
  /\ ~hung
  /\ cls = "crux"
  /\ \E v \in BOOLEAN : Step("bAutoReset", 0, <<>>, [Self EXCEPT !.auto = v])
  /\ UNCHANGED <<m_roll, other, buf, outNum, hung, cycleVars>>

\* the words a caller imports
ImportWords == {0, 1, mask - 1, mask}

\* the arrays a caller may pass: fewer words than the bag stores, as many, or
\* one more (a surplus word with every bit set)
UsageInputs(N) ==
  UNION {[1..k -> ImportWords] : k \in 0..arraySize(N)}
  \cup {Append(d, mask) : d \in [1..arraySize(N) -> ImportWords]}

SetUsageData ==
  /\ ~hung
  /\ cls = "dark"
  /\ \E inData \in UsageInputs(NumMarbles) \cup {buf} :
       \E inNumElements \in {Len(inData)} :
         Step("SetUsageData", 0, <<inData, inNumElements>>,
              SetUsageDataOp(NumMarbles, Self, inData, inNumElements))
  /\ UNCHANGED <<m_roll, other, buf, outNum, hung, cycleVars>>

\* _outData is a pointer passed by value: the assignment to it changes the
\* parameter only, and nothing is written through it
GetUsageData ==
  /\ ~hung
  /\ cls = "dark"
  /\ buf' = buf
  /\ outNum' = arraySize(NumMarbles)
  /\ Step("GetUsageData", 0, <<>>, Self)
  /\ UNCHANGED <<m_roll, other, hung, cycleVars>>

\* other after it was moved from: it goes out of scope and is not used again
Destroyed == [bag |-> <<>>, valid |-> FALSE]

\* bag = std::move( other )
MoveAssign ==
  /\ ~hung
  /\ other.valid
  /\ Step("operator=", 0, <<>>, MoveAssignOp(Self, other.bag))
  /\ m_roll' = "e2"
  /\ other' = Destroyed
  /\ UNCHANGED <<buf, outNum, hung, cycleVars>>

\* the bag is replaced by one move-constructed from other
MoveConstruct ==
  /\ ~hung
  /\ other.valid
  /\ Step("MarbleBag&&", 0, <<>>, MoveConstructOp(cls, NumMarbles, other.bag))
  /\ m_roll' = "e2"
  /\ other' = Destroyed
  /\ UNCHANGED <<buf, outNum, hung, cycleVars>>

\* other.GetNext()
OtherGetNext ==
  /\ ~hung
  /\ other.valid
  /\ other.bag.num < MaxRemoved
  /\ \E roll1 \in Rolls, roll2 \in Rolls :
       LET g == GetNextOp(cls, NumMarbles, other.bag, roll1, roll2)
       IN /\ ~g.hung
          /\ other' = [other EXCEPT !.bag = g.bag]
  /\ Step("other.GetNext", 0, <<>>, Self)
  /\ UNCHANGED <<m_roll, buf, outNum, hung, cycleVars>>

\* another bag is constructed in place of the one moved from
ConstructOther ==
  /\ ~hung
  /\ ~other.valid
  /\ other' = [bag |-> Constructed(cls, NumMarbles), valid |-> TRUE]
  /\ Step("other.MarbleBag", 0, <<>>, Self)
  /\ UNCHANGED <<m_roll, buf, outNum, hung, cycleVars>>

\* the operations of one bag
Next ==
  \/ GetNext
  \/ Reset
  \/ SetRandomEngine
  \/ SetAutoReset
  \/ SetUsageData
  \/ GetUsageData

Spec == Init /\ [][Next]_vars

\* two bags, one moved into the other
NextMove ==
  \/ GetNext
  \/ Reset
  \/ SetAutoReset
  \/ MoveAssign
  \/ MoveConstruct
  \/ OtherGetNext
  \/ ConstructOther

SpecMove == Init /\ [][NextMove]_vars

\* ---- cycles of draws ------------------------------------------------------
\* GetNext, counted: how often each value came back since the bag was
\* constructed or last Reset by the caller
CycleGetNext ==
  /\ numCalls < MaxCycles * NumMarbles + 1
  /\ \E roll1 \in Rolls, roll2 \in Rolls : GetNextCore(roll1, roll2)
  /\ timesReturned' = [timesReturned EXCEPT ![lastRet'] = @ + 1]
  /\ numCalls' = numCalls + 1

CycleReset ==
  /\ ResetCore
  /\ timesReturned' = [v \in RetValues(cls, NumMarbles) |-> 0]
  /\ numCalls' = 0

NextCycle ==
  \/ CycleGetNext
  \/ CycleReset
  \/ SetAutoReset

SpecCycle == Init /\ [][NextCycle]_vars

\* ---- properties -----------------------------------------------------------

\* C1: from a newly constructed or newly Reset bag, NumMarbles consecutive
\* GetNext calls return every index of [0, NumMarbles-1] exactly once.
NoRepeatWithinCycle ==
  numCalls = NumMarbles =>
    \A v \in 0..(NumMarbles - 1) : timesReturned[v] = 1

\* C2: with auto reset on, after k * NumMarbles consecutive GetNext calls on a
\* new bag every value of [0, NumMarbles-1] has come back exactly k times.
ExactFrequency ==
  \A k \in 1..MaxCycles :
    (/\ cls = "crux"
     /\ bAutoReset
     /\ timesReturned[-1] = 0
     /\ numCalls = k * NumMarbles)
    => \A v \in 0..(NumMarbles - 1) : timesReturned[v] = k

\* C3: every value GetNext returns, other than -1, lies in [0, NumMarbles-1].
ReturnInRange ==
  (lastOp = "GetNext" /\ ~hung /\ lastRet # -1)
    => lastRet \in 0..(NumMarbles - 1)

\* C4: without auto reset, GetNext returns -1 exactly when
\* GetRemainingCount() was 0 at the call.
SentinelIffEmpty ==
  (lastOp = "GetNext" /\ ~hung /\ (cls = "dark" \/ ~bAutoReset))
    => ((lastRet = -1) <=> (GetRemainingCount(NumMarbles, preNum) = 0))

\* C5: a GetNext call that returns -1 leaves m_removedMarbles, m_numRemoved
\* and bAutoReset as they were.
FailedDrawNoMutation ==
  [][(lastOp' = "GetNext" /\ ~hung' /\ lastRet' = -1)
       => UNCHANGED bagVars]_vars

FailedDrawHappened ==
  /\ lastOp = "GetNext"
  /\ ~hung
  /\ lastRet = -1
  /\ m_numRemoved > 0

\* C6: with auto reset on, GetNext on an exhausted bag does what Reset()
\* followed by GetNext() does with the same m_roll() result: the same
\* return value, the same storage with exactly one bit set, m_numRemoved = 1.
AutoRefillIsResetThenDraw ==
  [][(/\ cls = "crux"
      /\ lastOp' = "GetNext"
      /\ bAutoReset
      /\ m_numRemoved = NumMarbles)
     => /\ Len(lastIn') = 1
        /\ LET g == crux_GetNext(NumMarbles, ResetOp(cls, NumMarbles, Self),
                                 lastIn'[1], lastIn'[1])
           IN /\ lastRet' = g.ret
              /\ lastRet' \in 0..(NumMarbles - 1)
              /\ m_removedMarbles' = g.bag.bits
              /\ m_numRemoved' = g.bag.num
              /\ bAutoReset' = g.bag.auto
        /\ PopCount(cls, NumMarbles, m_removedMarbles') = 1
        /\ m_numRemoved' = 1
        /\ ~hung']_vars

AutoRefillHappened ==
  /\ cls = "crux"
  /\ lastOp = "GetNext"
  /\ bAutoReset
  /\ preNum = NumMarbles
  /\ NumMarbles > 1
  /\ lastRet >= 0

\* C7: m_numRemoved is the number of bits set in m_removedMarbles.
CountIsPopCount ==
  m_numRemoved = PopCount(cls, NumMarbles, m_removedMarbles)

\* C8: 0 <= m_numRemoved <= NumMarbles, so GetRemainingCount() is in
\* [0, NumMarbles].
CountInRange ==
  /\ m_numRemoved \in 0..NumMarbles
  /\ GetRemainingCount(NumMarbles, m_numRemoved) \in 0..NumMarbles

\* C9: GetUsageData into the caller's buffer followed by SetUsageData from
\* that buffer, with the word count GetUsageData reported, leaves
\* m_removedMarbles as it was before the export.
ExportImportRoundTrip ==
  [][(/\ lastOp = "GetUsageData"
      /\ lastOp' = "SetUsageData"
      /\ lastIn' = <<buf, outNum>>)
     => m_removedMarbles' = m_removedMarbles]_vars

\* C10: after Reset() the storage is all zero and m_numRemoved is 0, so
\* GetRemainingCount() is NumMarbles and HasMarbles() holds; a second Reset()
\* changes nothing.
ResetEmptiesBag ==
  lastOp = "Reset" =>
    /\ m_removedMarbles = EmptyStorage(cls, NumMarbles)
    /\ PopCount(cls, NumMarbles, m_removedMarbles) = 0
    /\ m_numRemoved = 0
    /\ GetRemainingCount(NumMarbles, m_numRemoved) = NumMarbles
    /\ HasMarbles(NumMarbles, m_numRemoved)
    /\ ResetOp(cls, NumMarbles, Self) = Self

ResetOfDrawnBag ==
  /\ lastOp = "Reset"
  /\ preNum > 0
  /\ m_numRemoved = 0

\* C12: every GetNext call returns, from every state the public operations
\* and the moves reach.
GetNextTerminates ==
  ~hung

\* C13: SetRandomEngine replaces m_roll and leaves m_removedMarbles,
\* m_numRemoved and bAutoReset as they were.
SetRandomEngineFrame ==
  [][lastOp' = "SetRandomEngine" => UNCHANGED bagVars]_vars

SetRandomEngineOnDrawnBag ==
  /\ lastOp = "SetRandomEngine"
  /\ m_roll = "e2"
  /\ m_numRemoved > 0
  /\ PopCount(cls, NumMarbles, m_removedMarbles) > 0

\* the pairs of m_roll() results, each as likely as any other, on which the
\* next GetNext call returns v
RollsReturning(v) ==
  {p \in Rolls \X Rolls :
     LET g == GetNextOp(cls, NumMarbles, Self, p[1], p[2])
     IN ~g.hung /\ g.ret = v}

\* C14: with m_roll() uniform and independent on [0, NumMarbles-1], each draw
\* is uniform over the slots still remaining: every remaining slot comes
\* back with probability 1 / GetRemainingCount(), which makes the sequence of
\* a cycle a uniformly random permutation.
DrawUniformOverRemaining ==
  (/\ ~hung
   /\ HasMarbles(NumMarbles, m_numRemoved)
   /\ m_numRemoved = PopCount(cls, NumMarbles, m_removedMarbles)
   /\ RemovedSet(cls, NumMarbles, m_removedMarbles) \subseteq 0..(NumMarbles - 1))
  => \A v \in 0..(NumMarbles - 1) :
       ~IsRemoved(cls, m_removedMarbles, v) =>
         Cardinality(RollsReturning(v)) * GetRemainingCount(NumMarbles, m_numRemoved)
           = NumMarbles * NumMarbles


\* C15: a GetNext call that returns a slot, made on a bag that still has
\* marbles (so no refill comes first), returns a slot whose bit was clear
\* before the call, sets that bit and no other, and adds one to m_numRemoved.
SuccessfulDrawSetsOneClearBit ==
  [][(/\ lastOp' = "GetNext"
      /\ ~hung'
      /\ lastRet' # -1
      /\ HasMarbles(NumMarbles, m_numRemoved))
     => (/\ ~IsRemoved(cls, m_removedMarbles, lastRet')
         /\ RemovedSet(cls, NumMarbles, m_removedMarbles')
              = RemovedSet(cls, NumMarbles, m_removedMarbles) \cup {lastRet'}
         /\ m_numRemoved' = m_numRemoved + 1)]_vars


\* C16: after SetUsageData with k supplied words on a bag of W words, word j
\* is the supplied word j for j < min(W, k) and zero for j >= k; supplied
\* words at positions >= W do not appear; m_numRemoved keeps its value and the
\* call returns.
SetUsageDataCopiesAndZeroFills ==
  lastOp = "SetUsageData" =>
    LET inData == lastIn[1]
        k == lastIn[2]
        W == arraySize(NumMarbles)
    IN /\ ~hung
       /\ DOMAIN m_removedMarbles = 0..(W - 1)
       /\ \A j \in 0..(W - 1) :
            /\ (j < k => m_removedMarbles[j] = inData[j + 1])
            /\ (j >= k => m_removedMarbles[j] = 0)

\* fewer words supplied than stored, a non-zero one among them, on a bag
\* that had drawn every marble
SetUsageDataShortInput ==
  /\ lastOp = "SetUsageData"
  /\ lastIn[2] >= 1
  /\ lastIn[2] < arraySize(NumMarbles)
  /\ lastIn[1][1] # 0
  /\ preNum >= NumMarbles
  /\ m_removedMarbles[arraySize(NumMarbles) - 1] = 0


\* C17: on a bag whose count agrees with its bits and whose set bits are all
\* slots of the bag, the search of one GetNext call that returns advances
\* through at most NumMarbles positions, whatever m_roll() yields.
WalkWithinOnePass ==
  (/\ ~hung
   /\ m_numRemoved = PopCount(cls, NumMarbles, m_removedMarbles)
   /\ RemovedSet(cls, NumMarbles, m_removedMarbles) \subseteq 0..(NumMarbles - 1))
  => \A roll1 \in Rolls, roll2 \in Rolls :
       LET g == GetNextOp(cls, NumMarbles, Self, roll1, roll2)
       IN ~g.hung => g.steps <= NumMarbles


\* C18: after a move the bag holds the storage and the count the moved-from
\* bag held before it.
MoveTransfersProgress ==
  [][lastOp' \in {"operator=", "MarbleBag&&"}
     => (/\ m_removedMarbles' = other.bag.bits
         /\ m_numRemoved' = other.bag.num)]_vars


\* C19: a GetNext call that returns -1 has called m_roll() not once.
FailedDrawConsumesNoRoll ==
  (lastOp = "GetNext" /\ ~hung /\ lastRet = -1) => lastIn = <<>>

============================================================================
